---- MODULE Spec2Model ----
\* Cursor recorder actor of crates/recording/src/cursor.rs: the control
\* handle (CursorActor), the sampling loop spawned by spawn_cursor_recorder,
\* the cursor identity cache it keeps in its CursorActorResponse, and the
\* one-shot handoff of that accumulator at stop.
EXTENDS Integers, Sequences, FiniteSets, TLC

\* ---------------------------------------------------------------- bounds
MaxTicks == 2        \* loop iterations explored per session
MaxBitmap == 3       \* distinct byte strings the provider can return
MaxSeed == 1         \* entries in the prior cache handed to the spawn
HashSpace == 3       \* distinct values of the content fingerprint

MaxCalls == 2        \* invocations of the Windows provider explored

\* ------------------------------------------------------ program constants
SleepMs == 10        \* tokio::time::sleep(Duration::from_millis(10))
UnixAtStart == 1000  \* wall clock reading when the task starts

\* ----------------------------------------------------------------- data
None == [none |-> TRUE]

\* screen_bounds: Bounds {x, y, width, height} supplied by the caller.
ScreenBounds == [x |-> 1, y |-> 0, width |-> 2, height |-> 4]

\* Byte strings of captured bitmaps, named 1..MaxBitmap.
Bitmaps == 1 .. MaxBitmap

\* DefaultHasher over data.image: deterministic and not injective; bitmaps
\* b and b + HashSpace collide.
Fingerprint(image) == image % HashSpace

\* image::load_from_memory(&data.image): a function of the bytes alone.
\* Even-numbered bitmaps are not decodable images.
LoadFromMemory(image) == image % 2 = 1

\* hotspot reported by the provider together with the bytes.
HotspotOf(image) == <<image, image + 1>>

CursorDatas == {[image |-> b, hotspot |-> HotspotOf(b)] : b \in Bitmaps}

\* device_query MouseState: coords and button_pressed.
\* Two pointer positions, one of them left of the screen bounds. Two button
\* vectors of different lengths: between them two buttons change, one keeps
\* its state and one exists in the longer vector only.
Coords == {<<0, 0>>, <<3, 2>>}
ButtonVecs == {<<FALSE, FALSE, TRUE>>, <<TRUE, TRUE, TRUE, TRUE>>}
MouseStates == [coords : Coords, button_pressed : ButtonVecs]

\* The GDI objects one invocation of the Windows get_cursor_image_data
\* acquires: GetIconInfo's two bitmaps, the screen DC, the memory DC and the
\* DIB section.
Handles == {"hbmColor", "hbmMask", "screen_dc", "mem_dc", "dib"}

\* u32::to_string
to_string(n) == ToString(n)

\* format!("cursor_{}.png", cursor_id)
FileNameOf(cursor_id) == "cursor_" \o cursor_id \o ".png"

\* A cache left behind by an earlier segment that started from (empty, 0):
\* n entries with ids 0..n-1, fingerprints distinct.
SeedCursors(n) ==
    [fp \in 0 .. n - 1 |->
        [file_name |-> FileNameOf(to_string(fp)), id |-> fp, hotspot |-> <<0, 0>>]]

\* ------------------------------------------------- pure parts of a tick

\* lines 126-127 and 148-149: position relative to the screen bounds. The
\* f64 quotient is kept as the pair <<numerator, denominator>>.
RelX(coords, bounds) == <<coords[1] - bounds.x, bounds.width>>
RelY(coords, bounds) == <<coords[2] - bounds.y, bounds.height>>

\* Variants of StoreCursor: the counter is not advanced; the counter is
\* advanced before the entry is built.
StoreCursor_NoIncrement(resp, id, file_name, hotspot) ==
    [cursors |-> (id :> [file_name |-> file_name, id |-> resp.next_cursor_id,
                         hotspot |-> hotspot]) @@ resp.cursors,
     next_cursor_id |-> resp.next_cursor_id]

StoreCursor_IncrementFirst(resp, id, file_name, hotspot) ==
    [cursors |-> (id :> [file_name |-> file_name, id |-> resp.next_cursor_id + 1,
                         hotspot |-> hotspot]) @@ resp.cursors,
     next_cursor_id |-> resp.next_cursor_id + 1]

\* lines 102-110: the new entry under fingerprint id, then the counter.
StoreCursor(resp, id, file_name, hotspot) ==
    [cursors |-> (id :> [file_name |-> file_name, id |-> resp.next_cursor_id,
                         hotspot |-> hotspot]) @@ resp.cursors,
     next_cursor_id |-> resp.next_cursor_id + 1]

\* Variants of ResolveCursor: the counter is advanced whether or not the
\* image was stored; an unavailable capture takes the id of the counter.
ResolveCursor_CountsFailures(resp, cursor_data, save_ok) ==
    IF cursor_data = None
    THEN [cursor_id |-> "default", cursors |-> resp.cursors,
          next_cursor_id |-> resp.next_cursor_id]
    ELSE LET id == Fingerprint(cursor_data.image) IN
         IF id \in DOMAIN resp.cursors
         THEN [cursor_id |-> to_string(resp.cursors[id].id),
               cursors |-> resp.cursors,
               next_cursor_id |-> resp.next_cursor_id]
         ELSE LET cursor_id == to_string(resp.next_cursor_id)
                  file_name == FileNameOf(cursor_id)
                  stored == StoreCursor(resp, id, file_name, cursor_data.hotspot)
              IN IF LoadFromMemory(cursor_data.image) /\ save_ok
                 THEN [cursor_id |-> cursor_id, cursors |-> stored.cursors,
                       next_cursor_id |-> stored.next_cursor_id]
                 ELSE [cursor_id |-> cursor_id, cursors |-> resp.cursors,
                       next_cursor_id |-> resp.next_cursor_id + 1]

ResolveCursor_NoSentinel(resp, cursor_data, save_ok) ==
    IF cursor_data = None
    THEN [cursor_id |-> to_string(resp.next_cursor_id), cursors |-> resp.cursors,
          next_cursor_id |-> resp.next_cursor_id]
    ELSE LET id == Fingerprint(cursor_data.image) IN
         IF id \in DOMAIN resp.cursors
         THEN [cursor_id |-> to_string(resp.cursors[id].id),
               cursors |-> resp.cursors,
               next_cursor_id |-> resp.next_cursor_id]
         ELSE LET cursor_id == to_string(resp.next_cursor_id)
                  file_name == FileNameOf(cursor_id)
                  stored == StoreCursor(resp, id, file_name, cursor_data.hotspot)
              IN IF LoadFromMemory(cursor_data.image) /\ save_ok
                 THEN [cursor_id |-> cursor_id, cursors |-> stored.cursors,
                       next_cursor_id |-> stored.next_cursor_id]
                 ELSE [cursor_id |-> cursor_id, cursors |-> resp.cursors,
                       next_cursor_id |-> resp.next_cursor_id]

\* Variant of ResolveCursor: a cache hit takes over the hotspot just captured.
ResolveCursor_RefreshesHit(resp, cursor_data, save_ok) ==
    IF cursor_data = None
    THEN [cursor_id |-> "default", cursors |-> resp.cursors,
          next_cursor_id |-> resp.next_cursor_id]
    ELSE LET id == Fingerprint(cursor_data.image) IN
         IF id \in DOMAIN resp.cursors
         THEN [cursor_id |-> to_string(resp.cursors[id].id),
               cursors |-> [resp.cursors EXCEPT ![id].hotspot = cursor_data.hotspot],
               next_cursor_id |-> resp.next_cursor_id]
         ELSE LET cursor_id == to_string(resp.next_cursor_id)
                  file_name == FileNameOf(cursor_id)
                  stored == StoreCursor(resp, id, file_name, cursor_data.hotspot)
              IN IF LoadFromMemory(cursor_data.image) /\ save_ok
                 THEN [cursor_id |-> cursor_id, cursors |-> stored.cursors,
                       next_cursor_id |-> stored.next_cursor_id]
                 ELSE [cursor_id |-> cursor_id, cursors |-> resp.cursors,
                       next_cursor_id |-> resp.next_cursor_id]

\* lines 78-118: the cursor id of this tick and the cache after it.
\* cursor_data is the result of get_cursor_image_data(), save_ok the outcome
\* of rgba_image.save(&cursor_path).
ResolveCursor(resp, cursor_data, save_ok) ==
    IF cursor_data = None
    THEN [cursor_id |-> "default", cursors |-> resp.cursors,
          next_cursor_id |-> resp.next_cursor_id]
    ELSE LET id == Fingerprint(cursor_data.image) IN
         IF id \in DOMAIN resp.cursors
         THEN [cursor_id |-> to_string(resp.cursors[id].id),
               cursors |-> resp.cursors,
               next_cursor_id |-> resp.next_cursor_id]
         ELSE LET cursor_id == to_string(resp.next_cursor_id)
                  file_name == FileNameOf(cursor_id)
                  stored == StoreCursor(resp, id, file_name, cursor_data.hotspot)
              IN IF LoadFromMemory(cursor_data.image) /\ save_ok
                 THEN [cursor_id |-> cursor_id, cursors |-> stored.cursors,
                       next_cursor_id |-> stored.next_cursor_id]
                 ELSE [cursor_id |-> cursor_id, cursors |-> resp.cursors,
                       next_cursor_id |-> resp.next_cursor_id]

\* Variant of SaveAttempts: the image is saved before the cache is looked up.
SaveAttempts_BeforeLookup(resp, cursor_data, save_ok, tick) ==
    IF /\ cursor_data # None
       /\ LoadFromMemory(cursor_data.image)
    THEN << [file_name |-> FileNameOf(to_string(resp.next_cursor_id)),
             ok |-> save_ok, tick |-> tick] >>
    ELSE <<>>

\* lines 85-98: the call of rgba_image.save(&cursor_path) this tick makes,
\* if any: only for a fingerprint that is not cached and bytes that decode.
\* The target is named after the counter; ok is the call's outcome.
SaveAttempts(resp, cursor_data, save_ok, tick) ==
    IF /\ cursor_data # None
       /\ Fingerprint(cursor_data.image) \notin DOMAIN resp.cursors
       /\ LoadFromMemory(cursor_data.image)
    THEN << [file_name |-> FileNameOf(to_string(resp.next_cursor_id)),
             ok |-> save_ok, tick |-> tick] >>
    ELSE <<>>

\* Variant of Push: the new events go to the front.
Push_Front(vec, items) == items \o vec

\* lines 129 and 151: Vec::push of this tick's events, in order.
Push(vec, items) == vec \o items

\* Variant of MoveEvents: the position is taken from the previous sample.
MoveEvents_StaleCoords(mouse_state, last, cursor_id, elapsed, unix_time) ==
    IF mouse_state.coords # last.coords
    THEN << [active_modifiers |-> <<>>,
             cursor_id |-> cursor_id,
             process_time_ms |-> elapsed,
             unix_time_ms |-> unix_time,
             x |-> RelX(last.coords, ScreenBounds),
             y |-> RelY(last.coords, ScreenBounds)] >>
    ELSE <<>>

\* lines 120-130: the move event of this tick, if any.
MoveEvents(mouse_state, last, cursor_id, elapsed, unix_time) ==
    IF mouse_state.coords # last.coords
    THEN << [active_modifiers |-> <<>>,
             cursor_id |-> cursor_id,
             process_time_ms |-> elapsed,
             unix_time_ms |-> unix_time,
             x |-> RelX(mouse_state.coords, ScreenBounds),
             y |-> RelY(mouse_state.coords, ScreenBounds)] >>
    ELSE <<>>

\* lines 132-152: the click events of this tick, in button order. Vec index
\* num is position num + 1 of the sequence.
ChangedButtons(mouse_state, last) ==
    SelectSeq([i \in 1 .. Len(mouse_state.button_pressed) |-> i],
              LAMBDA i : /\ i <= Len(last.button_pressed)
                         /\ mouse_state.button_pressed[i] # last.button_pressed[i])

\* Variant of ClickEvents: the button number is the one-based position.
ClickEvents_OneBased(mouse_state, last, cursor_id, elapsed, unix_time) ==
    LET changed == ChangedButtons(mouse_state, last) IN
    [k \in 1 .. Len(changed) |->
        [down |-> mouse_state.button_pressed[changed[k]],
         active_modifiers |-> <<>>,
         cursor_num |-> changed[k],
         cursor_id |-> cursor_id,
         process_time_ms |-> elapsed,
         unix_time_ms |-> unix_time,
         x |-> RelX(mouse_state.coords, ScreenBounds),
         y |-> RelY(mouse_state.coords, ScreenBounds)]]

ClickEvents(mouse_state, last, cursor_id, elapsed, unix_time) ==
    LET changed == ChangedButtons(mouse_state, last) IN
    [k \in 1 .. Len(changed) |->
        [down |-> mouse_state.button_pressed[changed[k]],
         active_modifiers |-> <<>>,
         cursor_num |-> changed[k] - 1,
         cursor_id |-> cursor_id,
         process_time_ms |-> elapsed,
         unix_time_ms |-> unix_time,
         x |-> RelX(mouse_state.coords, ScreenBounds),
         y |-> RelY(mouse_state.coords, ScreenBounds)]]

\* chrono::Utc::now().timestamp_millis(): wall clock, running with the
\* monotonic clock from UnixAtStart.
UnixTime(elapsed) == UnixAtStart + elapsed

VARIABLES
    stop_signal,       \* Arc<AtomicBool>
    caller,            \* position of the owner of the CursorActor handle
    channel,           \* oneshot channel tx -> rx
    received,          \* value returned by CursorActor::stop
    pc,                \* position of the actor task
    response,          \* the actor's CursorActorResponse accumulator
    last_mouse_state,  \* let mut last_mouse_state
    now,               \* start_time.elapsed() in ms
    dir_exists,        \* cursors_dir exists on disk
    seed,              \* prev_cursors and next_cursor_id given to the spawn
    log,               \* history: per executed loop body, its inputs, the
                       \* cursor id it resolved and the accumulator before it
    writes,            \* history: the calls of rgba_image.save, in order
    stored_at,         \* history: where the actor was when stop stored the flag
    provider           \* one thread's run through the Windows
                       \* get_cursor_image_data and the GDI handles it holds

actor_vars == <<stop_signal, caller, channel, received, pc, response,
                last_mouse_state, now, dir_exists, seed, log, writes, stored_at>>

vars == <<stop_signal, caller, channel, received, pc, response,
          last_mouse_state, now, dir_exists, seed, log, writes, stored_at,
          provider>>

\* ----------------------------------------------------------- operations

\* Before the call of spawn_cursor_recorder: the arguments are chosen, no
\* channel and no task exist.
Init ==
    /\ stop_signal = FALSE
    /\ caller = "idle"
    /\ channel = [state |-> "none"]
    /\ received = None
    /\ pc = "unspawned"
    /\ \E n \in 0 .. MaxSeed :
          seed = [cursors |-> SeedCursors(n), next_cursor_id |-> n]
    /\ response = None
    /\ last_mouse_state = None
    /\ now = 0
    /\ dir_exists = FALSE
    /\ log = <<>>
    /\ writes = <<>>
    /\ stored_at = None
    /\ provider = [pc |-> "idle", held |-> {}, leaked |-> [h \in Handles |-> 0],
                   calls |-> 0, result |-> "none"]

\* lines 53-56 and 162: spawn_cursor_recorder makes the flag and the
\* channel, spawns the task and returns CursorActor { rx, stop_signal }.
\* It has no failing path.
Spawn ==
    /\ caller = "idle"
    /\ stop_signal' = FALSE
    /\ channel' = [state |-> "open"]
    /\ pc' = "start"
    /\ caller' = "handle"
    /\ UNCHANGED <<received, response, last_mouse_state, now, dir_exists,
                   seed, log>>
    /\ UNCHANGED <<writes, stored_at, provider>>

\* lines 59-71, directory creation succeeds: the task samples the mouse
\* once, builds the accumulator from the seed and enters the loop.
ActorStart ==
    /\ pc = "start"
    /\ \E m \in MouseStates : last_mouse_state' = m
    /\ response' = [cursors |-> seed.cursors,
                    next_cursor_id |-> seed.next_cursor_id,
                    moves |-> <<>>, clicks |-> <<>>]
    /\ dir_exists' = TRUE
    /\ pc' = "check"
    /\ UNCHANGED <<stop_signal, caller, channel, received, now, seed, log>>
    /\ UNCHANGED <<writes, stored_at, provider>>

\* line 71, create_dir_all returns Err: unwrap panics inside the task, the
\* task ends and tx is dropped with it.
ActorStartFail ==
    /\ pc = "start"
    /\ ~dir_exists
    /\ \E m \in MouseStates : last_mouse_state' = m
    /\ response' = [cursors |-> seed.cursors,
                    next_cursor_id |-> seed.next_cursor_id,
                    moves |-> <<>>, clicks |-> <<>>]
    /\ pc' = "panicked"
    /\ channel' = [state |-> "closed"]
    /\ UNCHANGED <<stop_signal, caller, received, now, dir_exists, seed, log>>
    /\ UNCHANGED <<writes, stored_at, provider>>

\* Variant of LoopCheck: the flag is not consulted before the first body.
LoopCheck_BodyFirst ==
    /\ pc = "check"
    /\ IF stop_signal /\ Len(log) > 0
       THEN pc' = "send"
       ELSE /\ Len(log) < MaxTicks
            /\ pc' = "tick"
    /\ UNCHANGED <<stop_signal, caller, channel, received, response,
                   last_mouse_state, now, dir_exists, seed, log>>
    /\ UNCHANGED <<writes, stored_at, provider>>

\* Variant of LoopCheck: the loop also ends after a tick without a capture.
LoopCheck_EndsOnUnavailable ==
    /\ pc = "check"
    /\ IF stop_signal \/ (Len(log) > 0 /\ log[Len(log)].cursor_data = None)
       THEN pc' = "send"
       ELSE /\ Len(log) < MaxTicks
            /\ pc' = "tick"
    /\ UNCHANGED <<stop_signal, caller, channel, received, response,
                   last_mouse_state, now, dir_exists, seed, log>>
    /\ UNCHANGED <<writes, stored_at, provider>>

\* line 73: the top-of-tick load of the stop flag.
LoopCheck ==
    /\ pc = "check"
    /\ IF stop_signal
       THEN pc' = "send"
       ELSE /\ Len(log) < MaxTicks
            /\ pc' = "tick"
    /\ UNCHANGED <<stop_signal, caller, channel, received, response,
                   last_mouse_state, now, dir_exists, seed, log>>
    /\ UNCHANGED <<writes, stored_at, provider>>

\* lines 74-155: one loop body, which runs without yielding, and the sleep
\* that ends it; the clock has advanced by the sleep when the loop returns
\* to its condition.
Tick ==
    /\ pc = "tick"
    /\ \E mouse_state \in MouseStates,
          cursor_data \in {None} \cup CursorDatas,
          save_ok \in BOOLEAN :
          LET elapsed == now
              unix_time == UnixTime(elapsed)
              r == ResolveCursor(response, cursor_data, save_ok)
              attempted == /\ cursor_data # None
                           /\ Fingerprint(cursor_data.image) \notin DOMAIN response.cursors
                           /\ LoadFromMemory(cursor_data.image)
          IN /\ (~attempted => save_ok)
             /\ response' =
                 [cursors |-> r.cursors,
                  next_cursor_id |-> r.next_cursor_id,
                  moves |-> Push(response.moves,
                      MoveEvents(mouse_state, last_mouse_state, r.cursor_id,
                                 elapsed, unix_time)),
                  clicks |-> Push(response.clicks,
                      ClickEvents(mouse_state, last_mouse_state, r.cursor_id,
                                  elapsed, unix_time))]
             /\ writes' = writes \o SaveAttempts(response, cursor_data, save_ok,
                                                 Len(log) + 1)
             /\ last_mouse_state' = mouse_state
             /\ log' = Append(log, [mouse_state |-> mouse_state,
                                    cursor_data |-> cursor_data,
                                    save_ok |-> save_ok,
                                    cursor_id |-> r.cursor_id,
                                    elapsed |-> elapsed,
                                    cursors |-> response.cursors,
                                    next_cursor_id |-> response.next_cursor_id,
                                    moves |-> Len(response.moves),
                                    clicks |-> Len(response.clicks)])
    /\ now' = now + SleepMs
    /\ pc' = "check"
    /\ UNCHANGED <<stop_signal, caller, channel, received, dir_exists, seed>>
    /\ UNCHANGED <<stored_at, provider>>

\* Variant of Handoff: a response without the events is sent.
Handoff_DropsEvents ==
    /\ pc = "send"
    /\ channel.state = "open"
    /\ channel' = [state |-> "sent",
                   value |-> [response EXCEPT !.moves = <<>>, !.clicks = <<>>]]
    /\ pc' = "done"
    /\ UNCHANGED <<stop_signal, caller, received, response, last_mouse_state,
                   now, dir_exists, seed, log>>
    /\ UNCHANGED <<writes, stored_at, provider>>

\* line 158: tx.send(response).ok()
Handoff ==
    /\ pc = "send"
    /\ channel.state = "open"
    /\ channel' = [state |-> "sent", value |-> response]
    /\ pc' = "done"
    /\ UNCHANGED <<stop_signal, caller, received, response, last_mouse_state,
                   now, dir_exists, seed, log>>
    /\ UNCHANGED <<writes, stored_at, provider>>

\* lines 40-41: CursorActor::stop stores the flag, then awaits rx.
StopStore ==
    /\ caller = "handle"
    /\ stop_signal' = TRUE
    /\ caller' = "awaiting"
    /\ UNCHANGED <<channel, received, pc, response, last_mouse_state, now,
                   dir_exists, seed, log>>
    /\ stored_at' = [pc |-> pc, ticks |-> Len(log)]
    /\ UNCHANGED <<writes, provider>>

\* line 42: rx.await yields Ok(response); stop returns it.
StopReturn ==
    /\ caller = "awaiting"
    /\ channel.state = "sent"
    /\ received' = channel.value
    /\ channel' = [state |-> "taken"]
    /\ caller' = "returned"
    /\ UNCHANGED <<stop_signal, pc, response, last_mouse_state, now,
                   dir_exists, seed, log>>
    /\ UNCHANGED <<writes, stored_at, provider>>

\* line 42: rx.await yields Err(RecvError) because tx was dropped; unwrap
\* panics in the caller.
StopPanic ==
    /\ caller = "awaiting"
    /\ channel.state = "closed"
    /\ caller' = "panicked"
    /\ UNCHANGED <<stop_signal, channel, received, pc, response,
                   last_mouse_state, now, dir_exists, seed, log>>
    /\ UNCHANGED <<writes, stored_at, provider>>


\* ------------------------------------- Windows get_cursor_image_data

\* The provider returns to its caller: what is still held is never released.
ProviderReturn(p, result) ==
    [p EXCEPT !.pc = "returned", !.result = result]

\* line 229: the next invocation; handles the previous one still held stay
\* allocated for good.
ProviderCall ==
    /\ provider.pc \in {"idle", "returned"}
    /\ provider.calls < MaxCalls
    /\ provider' = [pc |-> "cursor_info", held |-> {},
                    leaked |-> [h \in Handles |->
                                   provider.leaked[h] + IF h \in provider.held THEN 1 ELSE 0],
                    calls |-> provider.calls + 1, result |-> "none"]
    /\ UNCHANGED actor_vars

\* lines 240-255: GetCursorInfo fails, or there is no cursor: return None.
ProviderGetCursorInfo ==
    /\ provider.pc = "cursor_info"
    /\ \E ok \in BOOLEAN :
          provider' = IF ok THEN [provider EXCEPT !.pc = "icon_info"]
                      ELSE ProviderReturn(provider, "None")
    /\ UNCHANGED actor_vars

\* lines 258-262: GetIconInfo creates the colour and the mask bitmap, which
\* the caller owns; on failure return None.
ProviderGetIconInfo ==
    /\ provider.pc = "icon_info"
    /\ \E ok \in BOOLEAN :
          provider' = IF ok
                      THEN [provider EXCEPT !.pc = "get_object",
                               !.held = @ \cup {"hbmColor", "hbmMask"}]
                      ELSE ProviderReturn(provider, "None")
    /\ UNCHANGED actor_vars

\* lines 265-273: GetObjectA returns 0: return None.
ProviderGetObject ==
    /\ provider.pc = "get_object"
    /\ \E ok \in BOOLEAN :
          provider' = IF ok THEN [provider EXCEPT !.pc = "create_dc"]
                      ELSE ProviderReturn(provider, "None")
    /\ UNCHANGED actor_vars

\* lines 276-277: GetDC and CreateCompatibleDC; their results are not tested.
ProviderCreateDC ==
    /\ provider.pc = "create_dc"
    /\ provider' = [provider EXCEPT !.pc = "create_dib",
                       !.held = @ \cup {"screen_dc", "mem_dc"}]
    /\ UNCHANGED actor_vars

\* lines 299-305: CreateDIBSection; on failure return None.
ProviderCreateDIBSection ==
    /\ provider.pc = "create_dib"
    /\ \E ok \in BOOLEAN :
          provider' = IF ok
                      THEN [provider EXCEPT !.pc = "bit_blt", !.held = @ \cup {"dib"}]
                      ELSE ProviderReturn(provider, "None")
    /\ UNCHANGED actor_vars

\* lines 308-326: SelectObject and BitBlt; on failure return None.
ProviderBitBlt ==
    /\ provider.pc = "bit_blt"
    /\ \E ok \in BOOLEAN :
          provider' = IF ok THEN [provider EXCEPT !.pc = "cleanup"]
                      ELSE ProviderReturn(provider, "None")
    /\ UNCHANGED actor_vars

\* lines 329-338: the pixels are copied out, then DeleteObject(dib),
\* DeleteDC(mem_dc), ReleaseDC(screen_dc), DeleteObject(hbmColor) and
\* DeleteObject(hbmMask).
ProviderCleanup ==
    /\ provider.pc = "cleanup"
    /\ provider' = [provider EXCEPT !.pc = "encode",
                       !.held = @ \ {"dib", "mem_dc", "screen_dc", "hbmColor", "hbmMask"}]
    /\ UNCHANGED actor_vars

\* lines 341-357: RgbaImage::from_raw and write_to as PNG; either may fail
\* and return None, else Some(CursorData).
ProviderEncode ==
    /\ provider.pc = "encode"
    /\ \E ok \in BOOLEAN :
          provider' = ProviderReturn(provider, IF ok THEN "Some" ELSE "None")
    /\ UNCHANGED actor_vars

ProviderNext ==
    ProviderCall \/ ProviderGetCursorInfo \/ ProviderGetIconInfo \/ ProviderGetObject
        \/ ProviderCreateDC \/ ProviderCreateDIBSection \/ ProviderBitBlt
        \/ ProviderCleanup \/ ProviderEncode

\* The provider on its own, called again and again.
ProviderSpec == Init /\ [][ProviderNext]_vars

Actor == ActorStart \/ ActorStartFail \/ LoopCheck \/ Tick \/ Handoff
Caller == StopStore \/ StopReturn \/ StopPanic

Next == Spawn \/ ActorStart \/ ActorStartFail \/ LoopCheck \/ Tick \/ Handoff
           \/ StopStore \/ StopReturn \/ StopPanic

Spec == Init /\ [][Next]_vars

\* The runtime keeps scheduling the actor task and the stopping caller.
LiveSpec == Spec /\ WF_vars(Actor) /\ WF_vars(Caller)

TypeOK ==
    /\ stop_signal \in BOOLEAN
    /\ caller \in {"idle", "handle", "awaiting", "returned", "panicked"}
    /\ pc \in {"unspawned", "start", "check", "tick", "send", "done", "panicked"}
    /\ channel.state \in {"none", "open", "sent", "taken", "closed"}
    /\ Len(log) <= MaxTicks

\* ------------------------------------------------------------ properties

\* A step that executes one loop body, the record it logs, and the events
\* that body appended.
TickStep == Len(log') = Len(log) + 1
ThisTick == log'[Len(log')]
NewMoves == SubSeq(response'.moves, Len(response.moves) + 1, Len(response'.moves))
NewClicks == SubSeq(response'.clicks, Len(response.clicks) + 1, Len(response'.clicks))
NewCursorIds == {NewMoves[i].cursor_id : i \in 1 .. Len(NewMoves)}
                   \cup {NewClicks[i].cursor_id : i \in 1 .. Len(NewClicks)}

\* The tick met a fingerprint that is not cached and did not get an image
\* file out of it: the bytes do not decode, or the save failed.
FailedAttempt(t) ==
    /\ t.cursor_data # None
    /\ Fingerprint(t.cursor_data.image) \notin DOMAIN t.cursors
    /\ ~(LoadFromMemory(t.cursor_data.image) /\ t.save_ok)

\* The tick met a fingerprint that is not cached, decoded and saved it.
Stored(t) ==
    /\ t.cursor_data # None
    /\ Fingerprint(t.cursor_data.image) \notin DOMAIN t.cursors
    /\ LoadFromMemory(t.cursor_data.image) /\ t.save_ok

\* C1: once CursorActor::stop has been called, the caller eventually gets
\* one CursorActorResponse back.
GracefulStop ==
    (caller = "awaiting") ~> (caller = "returned" /\ received # None)

\* C2: the loop iteration whose top-of-tick check reads the stop flag as set
\* runs no loop body (no mouse read, no provider call, no cache access, no
\* event) and goes to the handoff, and no body runs after it.
NoSampleAfterObservedStop ==
    [][/\ (pc = "check" /\ stop_signal /\ pc' # pc) =>
             (pc' = "send" /\ log' = log /\ response' = response
              /\ last_mouse_state' = last_mouse_state)
       /\ (pc \in {"send", "done"}) =>
             (log' = log /\ response' = response
              /\ last_mouse_state' = last_mouse_state)]_vars

StopObservedAfterTicks == pc = "send" /\ Len(log) >= 1

\* C3: ticks that capture bytes with the same fingerprint resolve the same
\* identity, ticks that capture bytes with distinct fingerprints resolve
\* distinct identities, and identities of fingerprints first seen in this
\* session increase in first-seen order.
Captured == {i \in 1 .. Len(log) : log[i].cursor_data # None}
FpAt(i) == Fingerprint(log[i].cursor_data.image)
IdNumber(cursor_id) ==
    CHOOSE n \in 0 .. MaxSeed + MaxTicks + 1 : to_string(n) = cursor_id
IdentityStability ==
    \A i \in Captured : \A j \in Captured :
        /\ (FpAt(i) = FpAt(j)) => (log[i].cursor_id = log[j].cursor_id)
        /\ (FpAt(i) # FpAt(j)) => (log[i].cursor_id # log[j].cursor_id)
        /\ (/\ i < j
            /\ FpAt(i) # FpAt(j)
            /\ FpAt(i) \notin DOMAIN seed.cursors
            /\ FpAt(j) \notin DOMAIN seed.cursors
            /\ \A k \in Captured : k < j => FpAt(k) # FpAt(j))
              => IdNumber(log[i].cursor_id) < IdNumber(log[j].cursor_id)

\* C4: every cache entry has an id below next_cursor_id, from the spawn
\* through the handoff, and next_cursor_id never decreases.
CacheBelowNext(r) == \A fp \in DOMAIN r.cursors : r.cursors[fp].id < r.next_cursor_id
CacheInvariant ==
    /\ [](/\ CacheBelowNext(seed)
          /\ response # None => CacheBelowNext(response)
          /\ channel.state = "sent" => CacheBelowNext(channel.value)
          /\ received # None => CacheBelowNext(received))
    /\ [][response # None => response'.next_cursor_id >= response.next_cursor_id]_vars

CacheGrew ==
    /\ response # None
    /\ Cardinality(DOMAIN response.cursors) > Cardinality(DOMAIN seed.cursors)

\* C5: on a tick that meets a new fingerprint and fails to decode or to
\* save it, every event appended by that tick carries cursor_id "default".
FailureFallsBackToDefault ==
    [][(TickStep /\ FailedAttempt(ThisTick)) => NewCursorIds \subseteq {"default"}]_vars

\* C6: a tick that meets a new fingerprint and fails to decode or to save it
\* leaves the cursors map and next_cursor_id as they were, and the loop goes
\* on to its next top-of-tick check.
FailureConsumesNoIdentity ==
    [][(TickStep /\ FailedAttempt(ThisTick)) =>
          /\ response'.cursors = response.cursors
          /\ response'.next_cursor_id = response.next_cursor_id
          /\ pc' = "check"]_vars

SomeAttemptFailed ==
    /\ \E i \in 1 .. Len(log) :
          FailedAttempt(log[i]) /\ ~LoadFromMemory(log[i].cursor_data.image)
    /\ \E i \in 1 .. Len(log) :
          FailedAttempt(log[i]) /\ LoadFromMemory(log[i].cursor_data.image)

\* C7: on a tick where get_cursor_image_data returns None, every event the
\* tick appends carries cursor_id "default", and the cursors map and
\* next_cursor_id are unchanged.
CaptureUnavailableFallsBack ==
    [][(TickStep /\ ThisTick.cursor_data = None) =>
          /\ NewCursorIds \subseteq {"default"}
          /\ response'.cursors = response.cursors
          /\ response'.next_cursor_id = response.next_cursor_id]_vars

UnavailableTickWithEvents ==
    \E i \in 1 .. Len(log) :
        /\ log[i].cursor_data = None
        /\ \E k \in 1 .. Len(response.moves) :
              k > log[i].moves /\ response.moves[k].process_time_ms = log[i].elapsed
        /\ \E k \in 1 .. Len(response.clicks) :
              k > log[i].clicks /\ response.clicks[k].process_time_ms = log[i].elapsed

\* C8: when the output directory cannot be created, the caller holds no
\* CursorActor handle.
SetupFailureFailsSpawn ==
    pc = "panicked" => caller \notin {"handle", "awaiting"}

\* C9: with a prior cache of N entries and next_cursor_id = N, the first tick
\* that stores a new bitmap gives it identity N and file cursor_N.png, and
\* next_cursor_id becomes N + 1.
SeededContinuity ==
    [][(/\ TickStep
        /\ Stored(ThisTick)
        /\ \A i \in 1 .. Len(log) : ~Stored(log[i])) =>
          LET N == Cardinality(DOMAIN seed.cursors)
              fp == Fingerprint(ThisTick.cursor_data.image)
          IN /\ DOMAIN response'.cursors = DOMAIN seed.cursors \cup {fp}
             /\ response'.cursors[fp].id = N
             /\ response'.cursors[fp].file_name = "cursor_" \o ToString(N) \o ".png"
             /\ ThisTick.cursor_id = ToString(N)
             /\ response'.next_cursor_id = N + 1]_vars

SeededSessionStoredACursor ==
    /\ seed.next_cursor_id > 0
    /\ \E i \in 1 .. Len(log) : Stored(log[i])
    /\ \E i \in 1 .. Len(log) : FailedAttempt(log[i]) /\ ~(\E j \in 1 .. i : Stored(log[j]))

\* C10: a tick whose pointer coordinates differ from those of the previous
\* sample (the pre-loop sample for the first tick) appends exactly one move
\* event, with x = (px - bounds.x) / bounds.width and
\* y = (py - bounds.y) / bounds.height of the tick's own coordinates; a tick
\* whose coordinates are those of the previous sample appends none.
PreviousSample == IF Len(log) = 0 THEN last_mouse_state ELSE log[Len(log)].mouse_state
MoveEventTriggering ==
    [][TickStep =>
          IF ThisTick.mouse_state.coords # PreviousSample.coords
          THEN /\ Len(NewMoves) = 1
               /\ NewMoves[1].x = <<ThisTick.mouse_state.coords[1] - ScreenBounds.x,
                                    ScreenBounds.width>>
               /\ NewMoves[1].y = <<ThisTick.mouse_state.coords[2] - ScreenBounds.y,
                                    ScreenBounds.height>>
          ELSE Len(NewMoves) = 0]_vars

MovedThenStayed ==
    /\ Len(log) = 2
    /\ log[1].mouse_state.coords = log[2].mouse_state.coords
    /\ Len(response.moves) = 1
    /\ response.moves[1].process_time_ms = log[1].elapsed

\* C11: on every tick, a button index present in the current and in the
\* previous sample gets a click event iff its pressed state changed, with
\* down the new state and cursor_num the index; an index the previous
\* sample does not have gets no event.
ClicksOfButton(num) == {k \in 1 .. Len(NewClicks) : NewClicks[k].cursor_num = num}
ClickEventTriggering ==
    [][TickStep =>
          LET cur == ThisTick.mouse_state.button_pressed
              prev == PreviousSample.button_pressed
          IN /\ \A k \in 1 .. Len(NewClicks) :
                    NewClicks[k].cursor_num \in 0 .. Len(cur) - 1
             /\ \A i \in 1 .. Len(cur) :
                    IF i <= Len(prev) /\ cur[i] # prev[i]
                    THEN /\ Cardinality(ClicksOfButton(i - 1)) = 1
                         /\ \A k \in ClicksOfButton(i - 1) : NewClicks[k].down = cur[i]
                    ELSE ClicksOfButton(i - 1) = {}]_vars

TwoClicksAndAnAbsentButton ==
    /\ Len(log) = 2
    /\ Len(log[1].mouse_state.button_pressed) < Len(log[2].mouse_state.button_pressed)
    /\ log[2].mouse_state.button_pressed[Len(log[2].mouse_state.button_pressed)]
    /\ Len(response.clicks) = log[2].clicks + 2

\* C12: every invocation of the Windows provider returns with all handles
\* it acquired released, on the success path and on every early return.
ProviderReleasesHandles ==
    provider.pc = "returned" => provider.held = {}

\* C13: the actor sends its accumulator at most once and only after the loop
\* has exited, it neither mutates the accumulator nor samples after that,
\* and the response stop returns is the accumulator as the loop left it.
ExactlyOnceFrozenHandoff ==
    /\ [][/\ (channel' # channel /\ channel'.state = "sent") =>
                (pc = "send" /\ channel.state = "open" /\ channel'.value = response)
          /\ (channel.state \in {"sent", "taken"}) =>
                (channel'.state \in {"sent", "taken"}
                 /\ (channel'.state = "sent" => channel' = channel))
          /\ (pc \in {"send", "done"}) =>
                (response' = response /\ log' = log /\ writes' = writes
                 /\ last_mouse_state' = last_mouse_state
                 /\ pc' \in {"send", "done"})]_vars
    /\ [](received # None =>
             (received = response /\ pc = "done" /\ channel.state = "taken"))

ReturnedAFilledAccumulator ==
    /\ received # None
    /\ Len(received.moves) > 0
    /\ Len(received.clicks) > 0
    /\ Cardinality(DOMAIN received.cursors) > Cardinality(DOMAIN seed.cursors)

\* C14: the actor leaves the loop only from its top-of-tick check with the
\* stop flag set, or never enters it because directory creation failed; a
\* tick with an unavailable capture, a failed decode or a failed save
\* returns to the check, and while the flag is not set the next loop step
\* is always possible (up to the MaxTicks bodies explored).
OnlyStopOrSetupFailureEndsSampling ==
    /\ [][/\ (pc \in {"check", "tick"} /\ pc' \notin {"check", "tick"}) =>
                (stop_signal /\ pc = "check" /\ pc' = "send")
          /\ TickStep => pc' = "check"]_vars
    /\ [](/\ pc \in {"send", "done"} => stop_signal
          /\ pc = "panicked" => (~dir_exists /\ log = <<>>)
          /\ (pc \in {"check", "tick"} /\ ~stop_signal /\ Len(log) < MaxTicks)
                => ENABLED (LoopCheck \/ Tick))

SamplingSurvivedFailures ==
    /\ Len(log) = 2
    /\ FailedAttempt(log[1])
    /\ log[2].cursor_data = None
    /\ pc = "check"
    /\ ~stop_signal

\* C15: the saves that target the file of a cache entry, and the tick that
\* created the entry.
SavesOf(file_name) == {k \in 1 .. Len(writes) : writes[k].file_name = file_name}
CreatedOn(fp, t) ==
    /\ t \in 1 .. Len(log)
    /\ fp \notin DOMAIN log[t].cursors
    /\ IF t = Len(log) THEN fp \in DOMAIN response.cursors
                       ELSE fp \in DOMAIN log[t + 1].cursors

\* C15 (as claimed): every file a cache entry refers to is the target of
\* exactly one write in its life, made on the tick that creates the entry; a
\* seeded entry's file, written by the earlier session, is not written in
\* this one.
FileWrittenExactlyOnce ==
    response # None =>
        \A fp \in DOMAIN response.cursors :
            LET W == SavesOf(response.cursors[fp].file_name) IN
            IF fp \in DOMAIN seed.cursors
            THEN W = {}
            ELSE /\ Cardinality(W) = 1
                 /\ \A k \in W : CreatedOn(fp, writes[k].tick)

\* C15 (amended): every file a cache entry created in this session refers to
\* is the target of exactly one save that succeeds, made on the tick that
\* creates the entry, and of no save after that tick; saves that failed may
\* have targeted the same name on earlier ticks. A seeded entry's file is the
\* target of no save.
FileSavedOnceSuccessfully ==
    response # None =>
        \A fp \in DOMAIN response.cursors :
            LET W == SavesOf(response.cursors[fp].file_name)
                Ok == {k \in W : writes[k].ok}
            IN IF fp \in DOMAIN seed.cursors
               THEN W = {}
               ELSE /\ Cardinality(Ok) = 1
                    /\ \A k \in Ok :
                          /\ CreatedOn(fp, writes[k].tick)
                          /\ \A j \in W : j <= k /\ writes[j].tick <= writes[k].tick

SavedAfterAFailedSave ==
    /\ response # None
    /\ \E fp \in DOMAIN response.cursors \ DOMAIN seed.cursors :
          LET W == SavesOf(response.cursors[fp].file_name) IN
          /\ Cardinality(W) = 2
          /\ \E k \in W : ~writes[k].ok

\* C16: moves and clicks only grow at the end, and within each of them an
\* earlier event comes from an earlier or the same tick and has a
\* process_time_ms that is not greater.
IsPrefix(a, b) == Len(a) <= Len(b) /\ SubSeq(b, 1, Len(a)) = a
TicksAt(time) == {t \in 1 .. Len(log) : log[t].elapsed = time}
InTickOrder(events) ==
    /\ \A k \in 1 .. Len(events) : Cardinality(TicksAt(events[k].process_time_ms)) = 1
    /\ \A i \in 1 .. Len(events) : \A j \in i .. Len(events) :
          /\ events[i].process_time_ms <= events[j].process_time_ms
          /\ \A ti \in TicksAt(events[i].process_time_ms) :
             \A tj \in TicksAt(events[j].process_time_ms) : ti <= tj
EventOrdering ==
    /\ [][(response # None /\ response' # None) =>
             /\ IsPrefix(response.moves, response'.moves)
             /\ IsPrefix(response.clicks, response'.clicks)]_vars
    /\ [](response # None =>
             (InTickOrder(response.moves) /\ InTickOrder(response.clicks)))

EventsOfTwoTicks ==
    /\ response # None
    /\ Len(response.moves) = 2
    /\ Len(response.clicks) >= 3
    /\ response.clicks[1].process_time_ms < response.clicks[Len(response.clicks)].process_time_ms

\* C17: a fingerprint that is a key of the cursors map, seeded or inserted,
\* stays a key with the same id, file_name and hotspot, so the cache handed
\* off at stop holds every seeded entry unchanged.
KeepsEntries(old, new) ==
    \A fp \in DOMAIN old : fp \in DOMAIN new /\ new[fp] = old[fp]
CacheEntriesImmutable ==
    /\ [][(response # None /\ response' # None) =>
             KeepsEntries(response.cursors, response'.cursors)]_vars
    /\ [](/\ response # None => KeepsEntries(seed.cursors, response.cursors)
          /\ received # None => KeepsEntries(seed.cursors, received.cursors))

SeededEntryHitWithOtherHotspot ==
    /\ received # None
    /\ \E i \in 1 .. Len(log) :
          /\ log[i].cursor_data # None
          /\ Fingerprint(log[i].cursor_data.image) \in DOMAIN seed.cursors
          /\ log[i].cursor_data.hotspot #
                seed.cursors[Fingerprint(log[i].cursor_data.image)].hotspot
    /\ DOMAIN received.cursors # DOMAIN seed.cursors

\* C18: in the accumulator handed off at stop, an event whose cursor_id is
\* not "default" carries the decimal id of a Cursor of the returned map,
\* the entry of the bitmap captured on the tick that produced the event.
RefersToCapturedCursor(e) ==
    e.cursor_id # "default" =>
        \E t \in TicksAt(e.process_time_ms) :
            /\ log[t].cursor_data # None
            /\ LET fp == Fingerprint(log[t].cursor_data.image) IN
               /\ fp \in DOMAIN received.cursors
               /\ to_string(received.cursors[fp].id) = e.cursor_id
ReferentialIntegrity ==
    received # None =>
        /\ \A k \in 1 .. Len(received.moves) : RefersToCapturedCursor(received.moves[k])
        /\ \A k \in 1 .. Len(received.clicks) : RefersToCapturedCursor(received.clicks[k])

\* C19: no loop body begins after stop has stored the flag, except the one
\* whose top-of-tick check had already passed; so the events appended after
\* the store come from at most one tick, and a store before the first
\* top-of-tick check returns the seed cache and counter with no events.
TicksAfterStore == {t \in 1 .. Len(log) : t > stored_at.ticks}
BoundedWorkAfterStop ==
    stored_at # None =>
        /\ Cardinality(TicksAfterStore) <= (IF stored_at.pc = "tick" THEN 1 ELSE 0)
        /\ response # None =>
              \A k \in 1 .. Len(response.moves) :
              \A t \in 1 .. Len(log) :
                  (k > log[t].moves /\ t > stored_at.ticks) => t = stored_at.ticks + 1
        /\ (received # None /\ stored_at.ticks = 0 /\ stored_at.pc \in {"start", "check"})
              => received = [cursors |-> seed.cursors,
                             next_cursor_id |-> seed.next_cursor_id,
                             moves |-> <<>>, clicks |-> <<>>]

TickInProgressCompleted ==
    /\ stored_at # None
    /\ stored_at.pc = "tick"
    /\ received # None
    /\ Len(log) = stored_at.ticks + 1
    /\ Len(received.moves) > log[Len(log)].moves
    /\ Len(received.clicks) > log[Len(log)].clicks

\* C20: next_cursor_id minus the seeded counter equals the number of cache
\* entries minus the number of seeded entries, and both equal the number of
\* successful image saves so far; a tick adds at most one entry and advances
\* the counter by at most one.
SuccessfulSaves == {k \in 1 .. Len(writes) : writes[k].ok}
CounterAndCacheInLockstep ==
    /\ [](response # None =>
             LET grown == response.next_cursor_id - seed.next_cursor_id IN
             /\ grown = Cardinality(DOMAIN response.cursors)
                           - Cardinality(DOMAIN seed.cursors)
             /\ grown = Cardinality(SuccessfulSaves))
    /\ [][TickStep =>
             /\ response'.next_cursor_id - response.next_cursor_id \in {0, 1}
             /\ Cardinality(DOMAIN response'.cursors)
                   - Cardinality(DOMAIN response.cursors) \in {0, 1}]_vars

StoredOnceAfterAFailure ==
    /\ response # None
    /\ Len(writes) = 2
    /\ Cardinality(SuccessfulSaves) = 1
    /\ response.next_cursor_id = seed.next_cursor_id + 1

====
